---- MODULE Spec2Model ----
(***************************************************************************)
(* A model of the Sontag template engine (src/src/index.js): the parser's  *)
(* context stack and insertion cursor, the TAG pattern that splits a tag   *)
(* region into name and signature, the tag registry built by addTag, and   *)
(* the recursive renderer apply / childrenRenderer.                        *)
(*                                                                         *)
(* JavaScript strings are sequences of one-character strings, so that      *)
(* pattern matching, trimming and `end${tagName}` are computed.            *)
(***************************************************************************)
EXTENDS Integers, Sequences, FiniteSets, TLC

VARIABLES
    \* ---- Sontag.parse ----
    stack,      \* the scope stack, bottom first
    head,       \* $head: index of the insertion cursor in nodes (0 = $root)
    nodes,      \* the tree: nodes in creation order, each with its parent
    item,       \* the item of the current iteration
    scope,      \* `scope` of the current iteration: the top of stack on entry
    pos,        \* how many items the iterator has yielded
    status,     \* "running", "returned" or "threw"
    err,        \* which throw statement ended parse
    entry,      \* the public operation that called parse, and its template
    f,          \* the parameter f of parse: the label of the template
    line,       \* `line`: 1 plus the newlines of the items read so far
    line_count, \* `line_count`: the newlines of the current item
    errLoc,     \* the loc() text in the message of the error thrown, if any
    seen,       \* the literal runs read in content and in expression context
    \* ---- this.tags ----
    tags,       \* the registry: tag name -> [ctor, type]
    added,      \* the descriptor of the last addTag call and the call count
    \* ---- TAG ----
    tagItem,    \* a literal run matched against TAG
    tagRes,     \* the result of the match
    \* ---- Sontag.apply ----
    parentOf,   \* the tree handed to apply: the parent of each node but $root
    renders,    \* what the render method of each node does
    resolved,   \* the nodes whose external work has completed, in that order
    calls,      \* the pending apply calls, outermost first
    joined,     \* what childrenRenderer returned for each node
    invoked,    \* the nodes whose render has been invoked, in order of invocation
    outcome,    \* the state of the promise that renderString returned
    out,        \* what apply returned for each node
    \* ---- this.global_scope and the scopes of renderString ----
    gfilters,   \* this.global_scope.__filters__: filter name -> function
    flights,    \* the renderString calls: state, context, filters at the start
    observed    \* the last resolution of a name by a suspended call

parseVars == <<stack, head, nodes, item, scope, pos, status, err,
              entry, f, line, line_count, errLoc, seen>>
regVars == <<tags, added>>
tagVars == <<tagItem, tagRes>>
renderVars == <<parentOf, renders, resolved, calls, joined, out, invoked, outcome>>
scopeVars == <<gfilters, flights, observed>>
vars == <<parseVars, regVars, tagVars, renderVars, scopeVars>>

----------------------------------------------------------------------------
(* Bounds *)

\* most items contents.split(regex) yields for an explored template
MaxItems == 17
\* longest literal run matched against TAG on its own
MaxTagLen == 4
\* most addTag calls explored in a row
MaxAddTag == 3
\* most nodes of a rendered tree besides $root
MaxRendered == 2
MaxFlights == 2

----------------------------------------------------------------------------
(* Strings *)

Str_apply == <<"a", "p", "p", "l", "y">>
Str_filter == <<"f", "i", "l", "t", "e", "r">>
Str_if == <<"i", "f">>
Str_elseif == <<"e", "l", "s", "e", "i", "f">>
Str_else == <<"e", "l", "s", "e">>
Str_set == <<"s", "e", "t">>
Str_end == <<"e", "n", "d">>
Str_bogus == <<"b", "o", "g", "u", "s">>
Str_x == <<"x">>
Str_constructor == <<"c", "o", "n", "s", "t", "r", "u", "c", "t", "o", "r">>
Str_toString == <<"t", "o", "S", "t", "r", "i", "n", "g">>
Str_sp == <<" ">>

\* the whitespace characters of \s that the model's inputs use
IsSpace(c) == c \in {" ", "\n", "\t"}

\* String.prototype.trim
Trim(s) ==
    LET keep == {i \in 1..Len(s) : ~IsSpace(s[i])}
    IN  IF keep = {} THEN <<>>
        ELSE LET lo == CHOOSE i \in keep : \A j \in keep : i <= j
                 hi == CHOOSE i \in keep : \A j \in keep : j <= i
             IN  SubSeq(s, lo, hi)

----------------------------------------------------------------------------
(* TAG = /^\s*([^\s]+)\s*([^]+)$/  (index.js line 8) *)

\* The ways the pattern can match s: w1 leading whitespace characters for
\* the first \s*, n non-whitespace characters for ([^\s]+), w2 whitespace
\* characters for the second \s*, and at least one character of any kind
\* left for ([^]+), which runs to the end of s.
TagSplits(s) ==
    {c \in (0..Len(s)) \X (1..Len(s)) \X (0..Len(s)) :
        /\ c[1] + c[2] + c[3] < Len(s)
        /\ \A i \in 1..c[1] : IsSpace(s[i])
        /\ \A i \in (c[1] + 1)..(c[1] + c[2]) : ~IsSpace(s[i])
        /\ \A i \in (c[1] + c[2] + 1)..(c[1] + c[2] + c[3]) : IsSpace(s[i])}

\* Every quantifier is greedy: the match found first by backtracking is the
\* one taking the most for \s*, then the most for [^\s]+, then for \s*.
Prefer(c, d) ==
    \/ c[1] > d[1]
    \/ c[1] = d[1] /\ c[2] > d[2]
    \/ c[1] = d[1] /\ c[2] = d[2] /\ c[3] >= d[3]

NoMatch == [matched |-> FALSE, tagName |-> <<>>, signature |-> <<>>]

\* item.match(TAG): null, or the groups tagName and signature
TagMatch(s) ==
    LET splits == TagSplits(s)
    IN  IF splits = {} THEN NoMatch
        ELSE LET c == CHOOSE x \in splits : \A y \in splits : Prefer(x, y)
             IN  [matched |-> TRUE,
                  tagName |-> SubSeq(s, c[1] + 1, c[1] + c[2]),
                  signature |-> SubSeq(s, c[1] + c[2] + c[3] + 1, Len(s))]

----------------------------------------------------------------------------
(* The tag registry: this.tags, Sontag.tag, Sontag.addTag *)

TagStart == "$tag_start"
TagEnd == "$tag_end"
TagInside == "$tag_inside"

\* this.tags = {}
EmptyTags == [n \in {} |-> <<>>]

\* this.tags[k] = v only where k is not yet a key
Put_KeepFirst(reg, k, v) ==
    IF k \in DOMAIN reg THEN reg
    ELSE [n \in (DOMAIN reg) \cup {k} |-> IF n = k THEN v ELSE reg[n]]

\* this.tags[k] = v
Put(reg, k, v) == [n \in (DOMAIN reg) \cup {k} |-> IF n = k THEN v ELSE reg[n]]

Undefined == [ctor |-> "undefined", type |-> "undefined"]

\* this.tags is a plain object: a name it does not hold itself is looked up
\* on Object.prototype, whose properties are functions, not [ctor, type] pairs
ObjectPrototypeKeys ==
    {Str_constructor, Str_toString,
     <<"v", "a", "l", "u", "e", "O", "f">>,
     <<"h", "a", "s", "O", "w", "n", "P", "r", "o", "p", "e", "r", "t", "y">>,
     <<"i", "s", "P", "r", "o", "t", "o", "t", "y", "p", "e", "O", "f">>,
     <<"p", "r", "o", "p", "e", "r", "t", "y", "I", "s", "E", "n", "u", "m", "e", "r", "a", "b", "l", "e">>,
     <<"t", "o", "L", "o", "c", "a", "l", "e", "S", "t", "r", "i", "n", "g">>,
     <<"_", "_", "d", "e", "f", "i", "n", "e", "G", "e", "t", "t", "e", "r", "_", "_">>,
     <<"_", "_", "d", "e", "f", "i", "n", "e", "S", "e", "t", "t", "e", "r", "_", "_">>,
     <<"_", "_", "l", "o", "o", "k", "u", "p", "G", "e", "t", "t", "e", "r", "_", "_">>,
     <<"_", "_", "l", "o", "o", "k", "u", "p", "S", "e", "t", "t", "e", "r", "_", "_">>,
     <<"_", "_", "p", "r", "o", "t", "o", "_", "_">>}
Inherited == [ctor |-> "Object.prototype", type |-> "function"]

\* tag(tagName): this.tags[tagName]
Tag(reg, tagName) ==
    IF tagName \in DOMAIN reg THEN reg[tagName]
    ELSE IF tagName \in ObjectPrototypeKeys THEN Inherited
    ELSE Undefined

\* ctor.tagNames.forEach: the names from the i-th on, in order
RECURSIVE AddTagNames(_, _, _)
AddTagNames(reg, ctor, i) ==
    IF i > Len(ctor.tagNames) THEN reg
    ELSE LET tagName == ctor.tagNames[i]
             r1 == Put(reg, tagName, [ctor |-> ctor.name, type |-> TagStart])
             r2 == IF ~ctor.singular
                   THEN Put(r1, Str_end \o tagName, [ctor |-> ctor.name, type |-> TagEnd])
                   ELSE r1
         IN  AddTagNames(r2, ctor, i + 1)

\* (ctor.insideTagNames || []).forEach
RECURSIVE AddInsideNames(_, _, _)
AddInsideNames(reg, ctor, i) ==
    IF i > Len(ctor.insideTagNames) THEN reg
    ELSE AddInsideNames(
            Put(reg, ctor.insideTagNames[i], [ctor |-> ctor.name, type |-> TagInside]),
            ctor, i + 1)

\* addTag(ctor)
AddTag(reg, ctor) == AddInsideNames(AddTagNames(reg, ctor, 1), ctor, 1)

\* src/src/tags/apply.js: static tagNames = ['apply', 'filter']
ApplyTag == [name |-> "ApplyTag", tagNames |-> <<Str_apply, Str_filter>>,
             insideTagNames |-> <<>>, singular |-> FALSE]

\* Descriptors handed to addTag besides ApplyTag: a family with inside
\* names, a singular tag, a second family that claims one of ApplyTag's
\* names, and two whose own names collide.
IfTag == [name |-> "IfTag", tagNames |-> <<Str_if>>,
          insideTagNames |-> <<Str_elseif, Str_else>>, singular |-> FALSE]
SetTag == [name |-> "SetTag", tagNames |-> <<Str_set>>,
           insideTagNames |-> <<>>, singular |-> TRUE]
FilterTag == [name |-> "FilterTag", tagNames |-> <<Str_filter>>,
              insideTagNames |-> <<Str_else>>, singular |-> FALSE]
EndNameTag == [name |-> "EndNameTag", tagNames |-> <<Str_x, Str_end \o Str_x>>,
               insideTagNames |-> <<>>, singular |-> FALSE]
SelfInsideTag == [name |-> "SelfInsideTag", tagNames |-> <<Str_if>>,
                  insideTagNames |-> <<Str_if>>, singular |-> FALSE]

Descriptors == {ApplyTag, IfTag, SetTag, FilterTag, EndNameTag, SelfInsideTag}

\* The registry of the engine whose parse is modelled:
\* the constructor's addTag calls followed by addTag(IfTag), addTag(SetTag).
EngineTags == AddTag(AddTag(AddTag(EmptyTags, ApplyTag), IfTag), SetTag)

\* ctor.singular of the descriptor registered under a name
Singular(ctorName) ==
    (CHOOSE d \in {ApplyTag, IfTag, SetTag} : d.name = ctorName).singular

\* node.singular of a tag node: the singular flag of its descriptor
NodeSingular(ctorName) == Singular(ctorName)

----------------------------------------------------------------------------
(* this.global_scope, the scope of renderString, the scope of ApplyTag.render *)

\* what a lookup yields for a name that no object of the chain holds
Missing == "undefined"

\* the names a template may resolve, and the filters it may pipe through
Str_filters == "__filters__"
Str_sentinel == "__sentinel__"
ScopeNames == {"user", "fn", Str_sentinel}
FilterNames == {"upper", "mine"}

\* lines 44-50: the built-in filters, bound, under this.global_scope.__filters__
EngineFilters == [n \in FilterNames |-> IF n = "upper" THEN "builtin" ELSE Missing]

\* lines 36-39 and 47: the own properties of this.global_scope.  The value
\* of __filters__ is a reference to the one filters object of the engine.
FiltersRef == "this.global_scope.__filters__"
GlobalOwn == [n \in {"fn", Str_filters} |-> IF n = "fn" THEN "fns.fn" ELSE FiltersRef]

\* the context objects handed to renderString
NoBindings == [n \in {} |-> Missing]
Contexts ==
    {NoBindings, [n \in {"user", "fn"} |-> IF n = "user" THEN "v" ELSE "shadow"]}

\* line 263: Object.assign(Object.create(this.global_scope), context)
NewScope(context) == [own |-> context, proto |-> "global_scope"]

\* apply.js lines 18-21: { ...scope, __sentinel__: await children(scope) }.
\* The spread copies the own enumerable properties of scope; the new object
\* is a plain object, whose prototype is Object.prototype.
SpreadScope(sc, children) ==
    [own |-> [n \in (DOMAIN sc.own) \cup {Str_sentinel} |->
                IF n = Str_sentinel THEN children ELSE sc.own[n]],
     proto |-> "Object.prototype"]

\* obj[name]: the own property, or else the property of the prototype
Lookup(obj, name) ==
    IF name \in DOMAIN obj.own THEN obj.own[name]
    ELSE IF obj.proto = "global_scope" /\ name \in DOMAIN GlobalOwn THEN GlobalOwn[name]
    ELSE Missing

\* the function that the pipe stage `| name` finds: the property `name` of
\* the reserved filters mapping of the scope, with filters the present
\* contents of the filters object of the engine
LookupFilter(obj, name, filters) ==
    IF Lookup(obj, Str_filters) = FiltersRef THEN filters[name] ELSE Missing

\* what a template asks of its scope: a name, or a filter by name
Queries ==
    {[kind |-> "name", name |-> n] : n \in ScopeNames}
    \cup {[kind |-> "filter", name |-> n] : n \in FilterNames}

Resolve(obj, q, filters) ==
    IF q.kind = "filter" THEN LookupFilter(obj, q.name, filters)
    ELSE Lookup(obj, q.name)

IdleFlight == [state |-> "idle", context |-> NoBindings, start |-> EngineFilters]
NoObservation ==
    [via |-> "none", query |-> [kind |-> "name", name |-> "user"],
     value |-> Missing, expected |-> Missing]

\* no renderString call under way; the filters are those of the constructor
NoScope ==
    /\ gfilters = EngineFilters
    /\ flights = [r \in 1..MaxFlights |-> IdleFlight]
    /\ observed = NoObservation

----------------------------------------------------------------------------
(* Sontag.parse *)

TSTART == <<"{", "%">>
TEND == <<"%", "}">>
ESTART == <<"{", "{">>
EEND == <<"}", "}">>
CSTART == <<"{", "#">>
CEND == <<"#", "}">>

\* Object.values(tokens): the items that contents.split(regex) captures
Delims == {TSTART, TEND, ESTART, EEND, CSTART, CEND}

\* The literal runs between delimiters that the explored templates hold,
\* per region.  split() yields the empty string between adjacent delimiters
\* and at either end of the template.
TextLits == {<<"t">>, <<"\n">>}
\* the text run at item position p: the two text runs alternate
TextAt(p) == IF (p \div 4) % 2 = 0 THEN <<"t">> ELSE <<"\n">>
ExprLits == {<<"x">>}
Spaced(s) == Str_sp \o s \o Str_sp
TagLits ==
    {Spaced(Str_apply), Spaced(Str_end \o Str_filter),
     Spaced(Str_if \o Str_sp \o Str_x), Spaced(Str_else),
     Spaced(Str_end \o Str_if), Str_sp \o Str_set \o <<"\n">>, Spaced(Str_bogus),
     Spaced(Str_constructor), Spaced(Str_toString), Str_end \o Str_if,
     Str_apply \o Str_x, <<>>}

\* item.match(TAG) for each of these literal runs
TagResults == [s \in TagLits |-> TagMatch(s)]

LitsFor(top) ==
    CASE top = "tag" -> TagLits
      [] top = "expression" -> ExprLits
      [] OTHER -> {TextAt(pos)}

\* tree.parent(node) is null for a node that has no parent
NullNode == -1

RootNode == [ctor |-> "Root", typeof |-> "none", tagName |-> <<>>,
             text |-> <<>>, parent |-> NullNode]

\* the node with index h; $root has index 0
NodeAt(ns, h) == IF h = 0 THEN RootNode ELSE ns[h]

\* tree.parent(node)
Parent(ns, h) == NodeAt(ns, h).parent

\* tree.appendChild(ref, node): node becomes the last child of ref.  Nodes
\* are kept in creation order, which is the order of the children of a node.
AppendChild(ns, ref, node) == Append(ns, [node EXCEPT !.parent = ref])

\* new types.Text(item) with the item trimmed
TextNode_Trimmed(s) == [ctor |-> "Text", typeof |-> "none", tagName |-> <<>>,
                        text |-> Trim(s), parent |-> NullNode]

\* new types.Text(item), new types.Expression(item)
TextNode(s) == [ctor |-> "Text", typeof |-> "none", tagName |-> <<>>,
                text |-> s, parent |-> NullNode]
ExpressionNode(s) == [ctor |-> "Expression", typeof |-> "none", tagName |-> <<>>,
                      text |-> s, parent |-> NullNode]
\* new ctor(tagName, type, signature)
TagNode(ctor, tagName, type, signature) ==
    [ctor |-> ctor, typeof |-> type, tagName |-> tagName,
     text |-> signature, parent |-> NullNode]

Top(st) == st[Len(st)]
Pop(st) == SubSeq(st, 1, Len(st) - 1)

\* The items the iterator can yield next: split() with a capturing group
\* yields literal runs and delimiters in turn, a literal run first and last.
NextItems == IF pos % 2 = 0 THEN LitsFor(Top(stack)) ELSE Delims

\* (item.match(/\n/g) || []).length
Newlines(it) == Cardinality({i \in 1..Len(it) : it[i] = "\n"})

\* the literal runs read so far, by the context they were read in
Seen(sn, top, it) ==
    IF it \in Delims THEN sn
    ELSE IF top = "content" THEN [sn EXCEPT !.content = @ \o it]
    ELSE IF top = "expression" THEN [sn EXCEPT !.expression = @ \o it]
    ELSE sn

\* the head of one pass of the while loop: item = is.value; the line
\* counters; is = it.next(); scope = stack[stack.length - 1]
Take(it) ==
    /\ status = "running"
    /\ pos < MaxItems
    /\ it \in NextItems
    /\ item' = it
    /\ line_count' = Newlines(it)
    /\ line' = line + Newlines(it)
    /\ scope' = Top(stack)
    /\ pos' = pos + 1
    /\ seen' = Seen(seen, Top(stack), it)
    /\ UNCHANGED <<entry, f, regVars, tagVars, renderVars, scopeVars>>

\* an error message without loc()
NoLoc == [label |-> "none", line |-> 0]

\* loc(): `[${f}:${line - line_count}]`, line 62
Loc(label, ln, lc) == [label |-> label, line |-> ln - lc]

\* throw new Error(`${loc()} ...`)
Throw(e) ==
    /\ status' = "threw"
    /\ err' = e
    /\ errLoc' = Loc(f, line', line_count')
    /\ UNCHANGED <<stack, head, nodes>>

\* an error whose message has no loc()
ThrowBare(e) ==
    /\ status' = "threw"
    /\ err' = e
    /\ errLoc' = NoLoc
    /\ UNCHANGED <<stack, head, nodes>>

Continue(st, h, ns) ==
    /\ stack' = st
    /\ head' = h
    /\ nodes' = ns
    /\ UNCHANGED <<status, err, errLoc>>

\* lines 119-122
CommentOpen ==
    /\ Take(CSTART)
    /\ Continue(Append(stack, "comment"), head, nodes)

\* lines 124-131
CommentClose ==
    /\ Take(CEND)
    /\ IF Top(stack) = "comment"
       THEN Continue(Pop(stack), head, nodes)
       ELSE Throw("Unexpected")

\* line 135
CommentSkip ==
    \E it \in NextItems \ {CSTART, CEND} :
        /\ Take(it)
        /\ Top(stack) = "comment"
        /\ Continue(stack, head, nodes)

\* lines 137-143
ExprOpen ==
    /\ Take(ESTART)
    /\ Top(stack) # "comment"
    /\ IF Top(stack) # "content"
       THEN Throw("Unexpected")
       ELSE Continue(Append(stack, "expression"), head, nodes)

\* lines 145-151
TagOpen ==
    /\ Take(TSTART)
    /\ Top(stack) # "comment"
    /\ IF Top(stack) # "content"
       THEN Throw("Unexpected")
       ELSE Continue(Append(stack, "tag"), head, nodes)

\* lines 153-160
ExprClose ==
    /\ Take(EEND)
    /\ Top(stack) # "comment"
    /\ IF Top(stack) = "expression"
       THEN Continue(Pop(stack), head, nodes)
       ELSE Throw("Unexpected")

\* lines 162-169
TagClose ==
    /\ Take(TEND)
    /\ Top(stack) # "comment"
    /\ IF Top(stack) = "tag"
       THEN Continue(Pop(stack), head, nodes)
       ELSE Throw("Unexpected")

\* lines 173-176
AppendText ==
    \E it \in NextItems \ Delims :
        /\ Take(it)
        /\ Top(stack) = "content"
        /\ Continue(stack, head, AppendChild(nodes, head, TextNode(it)))

\* lines 178-181
AppendExpression ==
    \E it \in NextItems \ Delims :
        /\ Take(it)
        /\ Top(stack) = "expression"
        /\ Continue(stack, head, AppendChild(nodes, head, ExpressionNode(it)))

\* lines 197-201 with the node.singular test left out
StartTag_AlwaysEnter(node) ==
    Continue(stack, Len(nodes) + 1, AppendChild(nodes, head, node))

\* lines 197-201: a tag of type $tag_start
StartTag(node) ==
    Continue(stack,
             IF ~NodeSingular(node.ctor) THEN Len(nodes) + 1 ELSE head,
             AppendChild(nodes, head, node))

\* lines 207-211 with one more tree.parent() on the Inside branch
EndHead_GreatGrandparent(ns, h) ==
    LET parent == Parent(ns, h)
    IN  IF NodeAt(ns, h).typeof = TagStart THEN parent
        ELSE IF NodeAt(ns, h).typeof = TagInside
             THEN IF Parent(ns, parent) = NullNode THEN NullNode
                  ELSE Parent(ns, Parent(ns, parent))
        ELSE h

\* the cursor after an accepted End tag, lines 207-211
EndHead(ns, h) ==
    LET parent == Parent(ns, h)
    IN  IF NodeAt(ns, h).typeof = TagStart THEN parent
        ELSE IF NodeAt(ns, h).typeof = TagInside THEN Parent(ns, parent)
        ELSE h

\* lines 202-211 with the family comparison left out
EndTag_AnyFamily(node) ==
    IF Parent(nodes, head) = NullNode
    THEN Throw("CantClose")
    ELSE Continue(stack, EndHead(nodes, head), nodes)

\* lines 202-211: a tag of type $tag_end
EndTag(node) ==
    IF NodeAt(nodes, head).ctor # node.ctor \/ Parent(nodes, head) = NullNode
    THEN Throw("CantClose")
    ELSE Continue(stack, EndHead(nodes, head), nodes)

\* lines 212-219 with the family comparison left out
InsideTag_AnyFamily(node) ==
    IF Parent(nodes, head) = NullNode
    THEN Throw("CantInclude")
    ELSE Continue(stack, Len(nodes) + 1, AppendChild(nodes, head, node))

\* lines 212-219: a tag of type $tag_inside
InsideTag(node) ==
    IF NodeAt(nodes, head).ctor # node.ctor \/ Parent(nodes, head) = NullNode
    THEN Throw("CantInclude")
    ELSE Continue(stack, Len(nodes) + 1, AppendChild(nodes, head, node))

\* lines 183-222: a literal run in a tag region
TagItem ==
    \E it \in NextItems \ Delims :
        /\ Take(it)
        /\ Top(stack) = "tag"
        /\ LET res == TagResults[it]
               t == Tag(tags, res.tagName)
               node == TagNode(t.ctor, res.tagName, t.type, Trim(res.signature))
           IN  IF ~res.matched THEN Throw("MissingTag")
               ELSE IF t = Undefined THEN Throw("UnknownTag")
               ELSE IF t = Inherited THEN ThrowBare("TypeError")
               ELSE CASE t.type = TagStart -> StartTag(node)
                      [] t.type = TagEnd -> EndTag(node)
                      [] t.type = TagInside -> InsideTag(node)

\* lines 225-236 with the $head !== $root check left out
ParseEnd_NoHeadCheck ==
    /\ status = "running"
    /\ pos % 2 = 1
    /\ UNCHANGED <<item, scope, pos, entry, f, line, line_count, seen>>
    /\ IF Len(stack) # 1 THEN Throw("UnexpectedEnd")
       ELSE /\ status' = "returned"
            /\ UNCHANGED <<stack, head, nodes, err, errLoc>>
    /\ UNCHANGED <<regVars, tagVars, renderVars, scopeVars>>

\* lines 225-236: the iterator is done
ParseEnd ==
    /\ status = "running"
    /\ pos % 2 = 1
    /\ UNCHANGED <<item, scope, pos, entry, f, line, line_count, seen>>
    /\ IF Len(stack) # 1 THEN Throw("UnexpectedEnd")
       ELSE IF head # 0 THEN ThrowBare("LeftUnclosed")
       ELSE /\ status' = "returned"
            /\ UNCHANGED <<stack, head, nodes, err, errLoc>>
    /\ UNCHANGED <<regVars, tagVars, renderVars, scopeVars>>

NoCtor == [name |-> "none", tagNames |-> <<>>, insideTagNames |-> <<>>,
           singular |-> TRUE]
Idle == [n |-> 0, ctor |-> NoCtor]
Unmatched == <<>>

\* the locals of parse as its loop is entered, lines 62-105
ParseLocals ==
    /\ stack = <<"content">>
    /\ head = 0
    /\ nodes = <<>>
    /\ item = <<>>
    /\ scope = "content"
    /\ pos = 0
    /\ err = "none"
    /\ line = 1
    /\ line_count = 0
    /\ errLoc = NoLoc
    /\ seen = [content |-> <<>>, expression |-> <<>>]

\* parse(contents, f = '(String)'), line 59: the label when f is not passed
DefaultLabel == "(String)"

\* renderString(contents, context), and render(template, context) with the
\* identifier of a template that the loader finds
RenderString == [op |-> "renderString", template |-> "none"]
Render == [op |-> "render", template |-> "page.html"]

\* lines 257-266: render hands the loaded contents to renderString, which
\* calls this.parse(contents), so that f takes its default for both
ParseCalled ==
    /\ entry \in {RenderString, Render}
    /\ f = DefaultLabel

\* no parse, no match, no apply under way
NoParse == ParseLocals /\ status = "idle" /\ entry = RenderString /\ f = DefaultLabel
NoSplit == tagItem = <<>> /\ tagRes = Unmatched
NoApply ==
    /\ parentOf = <<>>
    /\ renders = <<>>
    /\ resolved = <<>>
    /\ calls = <<>>
    /\ joined = <<>>
    /\ out = <<>>
    /\ invoked = <<>>
    /\ outcome = [state |-> "pending", value |-> <<>>]

\* renderString(contents, context) or render(template, context) has been
\* called and parse entered
Init ==
    /\ ParseLocals
    /\ ParseCalled
    /\ status = "running"
    /\ tags = EngineTags
    /\ added = Idle
    /\ NoSplit
    /\ NoScope
    /\ NoApply

----------------------------------------------------------------------------
(* The tag region on its own: lines 184-195 applied to one literal run *)

TagAlphabet == {"a", "b", " "}

RECURSIVE Strings(_)
Strings(n) ==
    IF n = 0 THEN {<<>>}
    ELSE LET shorter == Strings(n - 1)
         IN  shorter \cup {Append(s, c) : s \in {t \in shorter : Len(t) = n - 1},
                                          c \in TagAlphabet}

TagInputs == Strings(MaxTagLen)

\* res = item.match(TAG); [str, tagName, signature] = res;
\* new ctor(tagName, type, signature.trim())
SplitTag ==
    /\ status = "idle"
    /\ tagRes = Unmatched
    /\ LET res == TagMatch(tagItem)
       IN  tagRes' = <<[res EXCEPT !.signature = Trim(res.signature)]>>
    /\ UNCHANGED <<tagItem, parseVars, regVars, renderVars, scopeVars>>

InitTag ==
    /\ NoParse
    /\ tags = EngineTags
    /\ added = Idle
    /\ tagItem \in TagInputs
    /\ NoScope
    /\ tagRes = Unmatched
    /\ NoApply

NextTag == SplitTag

SpecTag == InitTag /\ [][NextTag]_vars

----------------------------------------------------------------------------
(* The registry on its own: addTag calls on a new engine's this.tags *)

AddTagCall ==
    \E ctor \in Descriptors :
        /\ status = "idle"
        /\ added.n < MaxAddTag
        /\ tags' = AddTag(tags, ctor)
        /\ added' = [n |-> added.n + 1, ctor |-> ctor]
        /\ UNCHANGED <<parseVars, tagVars, renderVars, scopeVars>>

InitReg ==
    /\ NoParse
    /\ tags = EmptyTags
    /\ added = Idle
    /\ NoSplit
    /\ NoScope
    /\ NoApply

NextReg == AddTagCall

SpecReg == InitReg /\ [][NextReg]_vars

----------------------------------------------------------------------------
(* Sontag.apply and the childrenRenderer closure, lines 239-255 *)

\* the selector of a call that passes none
NoSelector == "undefined"
Selectors == {"if", "else"}

\* What a render method does with its arguments.  It waits for its external
\* work, calls children(scope, sel), and resolves either to its text (its
\* own mark followed by the text of its children) or to a function of the
\* selector that yields that text for the selector `bound` and '' otherwise.
\* A render method may also fail: it rejects once children(...) has
\* returned to it, or the function it resolves to throws when it is called.
Renders ==
    {[sel |-> s, ret |-> "string", bound |-> NoSelector] : s \in {NoSelector, "else"}}
    \cup {[sel |-> s, ret |-> "function", bound |-> b] :
            s \in {NoSelector, "else"}, b \in Selectors}
    \cup {[sel |-> NoSelector, ret |-> r, bound |-> NoSelector] :
            r \in {"throws", "function_throws"}}

\* the render of a plain node: a string, no selector passed on
PlainRender == [sel |-> NoSelector, ret |-> "string", bound |-> NoSelector]

\* a render that rejects, or resolves to a function that throws when called
Fails(r) == r.ret \in {"throws", "function_throws"}

\* the trees of at most MaxRendered nodes under $root, in document order
Trees == UNION {[1..n -> 0..(n - 1)] : n \in 0..MaxRendered}
IsTree(t) == \A i \in 1..Len(t) : t[i] < i

\* tree.childrenIterator(node): the children of n, in order
Children(t, n) == SelectSeq([i \in 1..Len(t) |-> i], LAMBDA i : t[i] = n)

Pending == <<"pending">>

\* the text a node contributes itself
Mark(n) == <<ToString(n)>>

\* what node.render resolves to, given what children(...) returned to it
RenderResult(n, childrenText) ==
    [kind |-> renders[n].ret, bound |-> renders[n].bound,
     text |-> Mark(n) \o childrenText]

\* calling a function that render resolved to
CallDeferred(res, selector) == IF selector = res.bound THEN res.text ELSE <<>>

\* lines 251-254 with the deferred function called without its argument
ApplyResult_NoArgument(res, condition) ==
    IF res.kind = "function" THEN CallDeferred(res, NoSelector) ELSE res.text

\* lines 251-254: typeof res === 'function' ? res(condition) : res
ApplyResult(res, condition) ==
    IF res.kind = "function" THEN CallDeferred(res, condition) ELSE res.text

\* res.join('') read from the last element to the first
RECURSIVE Join_Reversed(_)
Join_Reversed(res) ==
    IF res = <<>> THEN <<>> ELSE Join_Reversed(Tail(res)) \o Head(res)

\* line 249: res.join('')
RECURSIVE Join(_)
Join(res) == IF res = <<>> THEN <<>> ELSE Head(res) \o Join(Tail(res))

\* the promise that renderString returned
NoOutcome == [state |-> "pending", value |-> <<>>]
Fulfilled(v) == [state |-> "fulfilled", value |-> v]
Rejected(e) == [state |-> "rejected", value |-> e]

\* line 246 with the await wrapped in a try statement whose catch clause
\* pushes '' and goes on to the next child
Rejection_Caught(caller, e) ==
    [caller EXCEPT !.res = Append(@, <<>>), !.idx = @ + 1]

\* line 246 holds no try statement: when apply on a child rejects with e,
\* the await in the closure of the caller rejects, and with it the closure
Rejection(caller, e) == [caller EXCEPT !.pc = "closure_rejected", !.err = e]

\* lines 246-247: the value of apply on a child is pushed onto res and the
\* iterator advances
Pushed(caller, value) == [caller EXCEPT !.res = Append(@, value), !.idx = @ + 1]

\* line 246 with every child handed to apply before the first await
Launched_All(t, n, idx) == IF idx = 1 THEN Children(t, n) ELSE <<>>

\* line 246: the children whose apply, and with it whose render, is called
\* when the closure stands at the child idx of n
Launched(t, n, idx) == <<Children(t, n)[idx]>>

\* an apply call: its node and condition, where it stands, the locals `is`
\* (as an index into the children) and `res` of its childrenRenderer, and
\* the error it is rejecting with.  It stands at "render" (render waits
\* for its work), "children" (the closure runs or awaits a child),
\* "joined" (the closure has returned), "closure_rejected", "resolved"
\* (render has resolved), "render_rejected", "returned" or "rejected".
Call(n, condition) ==
    [node |-> n, condition |-> condition, pc |-> "render", idx |-> 1, res |-> <<>>,
     err |-> <<>>]

Innermost == calls[Len(calls)]

\* the external work that the render of node n waits for completes
WorkCompletes ==
    \E n \in 1..Len(parentOf) :
        /\ calls # <<>>
        /\ \A i \in 1..Len(resolved) : resolved[i] # n
        /\ resolved' = Append(resolved, n)
        /\ UNCHANGED <<parentOf, renders, calls, joined, out, invoked, outcome>>
        /\ UNCHANGED <<parseVars, regVars, tagVars, scopeVars>>

\* line 240: the render of the innermost call resumes once its work has
\* completed and calls children(scope, sel); lines 241-243
RenderResumes ==
    /\ calls # <<>>
    /\ Innermost.pc = "render"
    /\ Innermost.node = 0 \/ \E i \in 1..Len(resolved) : resolved[i] = Innermost.node
    /\ calls' = [calls EXCEPT ![Len(calls)].pc = "children"]
    /\ UNCHANGED <<parentOf, renders, resolved, joined, out, invoked, outcome>>
    /\ UNCHANGED <<parseVars, regVars, tagVars, scopeVars>>

\* line 246: this.apply(tree, node, outer_scope, condition) on the next child
ChildApply ==
    /\ calls # <<>>
    /\ Innermost.pc = "children"
    /\ Innermost.idx <= Len(Children(parentOf, Innermost.node))
    /\ calls' = Append(calls,
            Call(Children(parentOf, Innermost.node)[Innermost.idx],
                 renders[Innermost.node].sel))
    /\ invoked' = invoked \o Launched(parentOf, Innermost.node, Innermost.idx)
    /\ UNCHANGED <<parentOf, renders, resolved, joined, out, outcome>>
    /\ UNCHANGED <<parseVars, regVars, tagVars, scopeVars>>

\* line 249: the iterator is done and childrenRenderer returns res.join('')
ClosureReturns ==
    /\ calls # <<>>
    /\ Innermost.pc = "children"
    /\ Innermost.idx > Len(Children(parentOf, Innermost.node))
    /\ joined' = [joined EXCEPT ![Innermost.node] = Join(Innermost.res)]
    /\ calls' = [calls EXCEPT ![Len(calls)].pc = "joined"]
    /\ UNCHANGED <<parentOf, renders, resolved, out, invoked, outcome>>
    /\ UNCHANGED <<parseVars, regVars, tagVars, scopeVars>>

\* render resumes from its await of children(...): it resolves, or it
\* fails, or, no tag catching, it rejects as the closure did
RenderSettles ==
    /\ calls # <<>>
    /\ Innermost.pc \in {"joined", "closure_rejected"}
    /\ calls' = [calls EXCEPT ![Len(calls)] =
            IF Innermost.pc = "closure_rejected"
            THEN [Innermost EXCEPT !.pc = "render_rejected"]
            ELSE IF renders[Innermost.node].ret = "throws"
            THEN [Innermost EXCEPT !.pc = "render_rejected",
                                   !.err = Mark(Innermost.node)]
            ELSE [Innermost EXCEPT !.pc = "resolved"]]
    /\ UNCHANGED <<parentOf, renders, resolved, joined, out, invoked, outcome>>
    /\ UNCHANGED <<parseVars, regVars, tagVars, scopeVars>>

\* line 240: apply resumes from its await of $root.render(...), rejecting
\* if render rejected; lines 251-254: it returns the string, or the value
\* of the function, whose throw rejects apply
ApplySettles ==
    /\ calls # <<>>
    /\ Innermost.pc \in {"resolved", "render_rejected"}
    /\ LET n == Innermost.node
           value == ApplyResult(RenderResult(n, joined[n]), Innermost.condition)
       IN  IF Innermost.pc = "render_rejected"
           THEN /\ calls' = [calls EXCEPT ![Len(calls)].pc = "rejected"]
                /\ out' = out
           ELSE IF renders[n].ret = "function_throws"
           THEN /\ calls' = [calls EXCEPT ![Len(calls)].pc = "rejected",
                                          ![Len(calls)].err = Mark(n)]
                /\ out' = out
           ELSE /\ calls' = [calls EXCEPT ![Len(calls)].pc = "returned"]
                /\ out' = [out EXCEPT ![n] = value]
    /\ UNCHANGED <<parentOf, renders, resolved, joined, invoked, outcome>>
    /\ UNCHANGED <<parseVars, regVars, tagVars, scopeVars>>

\* line 246: the closure of the caller resumes from its await of
\* this.apply(...) on the child
CallerResumes ==
    /\ Len(calls) > 1
    /\ Innermost.pc \in {"returned", "rejected"}
    /\ LET rest == SubSeq(calls, 1, Len(calls) - 1)
       IN  calls' = [rest EXCEPT ![Len(rest)] =
                IF Innermost.pc = "rejected" THEN Rejection(@, Innermost.err)
                ELSE Pushed(@, out[Innermost.node])]
    /\ UNCHANGED <<parentOf, renders, resolved, joined, out, invoked, outcome>>
    /\ UNCHANGED <<parseVars, regVars, tagVars, scopeVars>>

\* line 265: the promise of renderString settles as apply on $root did
CallSettles ==
    /\ Len(calls) = 1
    /\ Innermost.pc \in {"returned", "rejected"}
    /\ calls' = <<>>
    /\ outcome' = (IF Innermost.pc = "rejected" THEN Rejected(Innermost.err)
                   ELSE Fulfilled(out[0]))
    /\ UNCHANGED <<parentOf, renders, resolved, joined, out, invoked>>
    /\ UNCHANGED <<parseVars, regVars, tagVars, scopeVars>>

\* the steps by which a settled apply call is passed up to its callers
Unwinds == RenderSettles \/ ApplySettles \/ CallerResumes \/ CallSettles

\* what line 265 hands to apply: the tree that parse made, whose nodes
\* render to plain strings and wait for nothing
ApplyTree(ns) ==
    /\ parentOf' = [i \in 1..Len(ns) |-> ns[i].parent]
    /\ renders' = [n \in 0..Len(ns) |-> PlainRender]
    /\ resolved' = [i \in 1..Len(ns) |-> i]
    /\ calls' = <<Call(0, NoSelector)>>
    /\ joined' = [n \in 0..Len(ns) |-> Pending]
    /\ out' = [n \in 0..Len(ns) |-> Pending]
    /\ invoked' = <<0>>
    /\ outcome' = NoOutcome

\* lines 264-265 with apply called on the tree while parse is under way
ApplyRoot_Eager ==
    /\ status \in {"running", "returned"}
    /\ invoked = <<>>
    /\ ApplyTree(nodes)
    /\ UNCHANGED <<parseVars, regVars, tagVars, scopeVars>>

\* lines 264-265: once this.parse(contents) has returned { tree, $root },
\* this.apply(tree, $root, scope), whose first act is $root.render(...)
ApplyRoot ==
    /\ status = "returned"
    /\ invoked = <<>>
    /\ ApplyTree(nodes)
    /\ UNCHANGED <<parseVars, regVars, tagVars, scopeVars>>

Next ==
    \/ CommentOpen
    \/ CommentClose
    \/ CommentSkip
    \/ ExprOpen
    \/ TagOpen
    \/ ExprClose
    \/ TagClose
    \/ AppendText
    \/ AppendExpression
    \/ TagItem
    \/ ParseEnd
    \/ ApplyRoot
    \/ RenderResumes
    \/ ChildApply
    \/ ClosureReturns
    \/ RenderSettles
    \/ ApplySettles
    \/ CallerResumes
    \/ CallSettles

Spec == Init /\ [][Next]_vars

\* the promise of the call: a throw of parse inside the async function
\* renderString rejects it, lines 262-266
CallOutcome == IF status = "threw" THEN Rejected(<<err>>) ELSE outcome

\* renderString, line 265: apply(tree, $root, scope) on a parsed tree
InitRender ==
    /\ NoParse
    /\ tags = EngineTags
    /\ added = Idle
    /\ NoSplit
    /\ NoScope
    /\ parentOf \in {t \in Trees : IsTree(t)}
    /\ renders \in {r \in [0..Len(parentOf) -> Renders] :
            \A n \in 0..Len(parentOf) :
                Children(parentOf, n) = <<>> => r[n].sel = NoSelector}
    /\ resolved = <<>>
    /\ calls = <<Call(0, NoSelector)>>
    /\ joined = [n \in 0..Len(parentOf) |-> Pending]
    /\ out = [n \in 0..Len(parentOf) |-> Pending]
    /\ invoked = <<0>>
    /\ outcome = NoOutcome

NextRender ==
    \/ WorkCompletes
    \/ RenderResumes
    \/ ChildApply
    \/ ClosureReturns
    \/ RenderSettles
    \/ ApplySettles
    \/ CallerResumes
    \/ CallSettles

SpecRender == InitRender /\ [][NextRender]_vars

----------------------------------------------------------------------------
(* renderString calls that overlap with one another and with addFilter *)

FilterFns == {"custom"}

\* lines 262-265: renderString makes its scope and is suspended in apply
RenderStringCall ==
    \E r \in 1..MaxFlights, context \in Contexts :
        /\ flights[r].state = "idle"
        /\ flights' = [flights EXCEPT ![r] =
                [state |-> "suspended", context |-> context, start |-> gfilters]]
        /\ UNCHANGED <<gfilters, observed>>
        /\ UNCHANGED <<parseVars, regVars, tagVars, renderVars>>

\* lines 285-287: addFilter(name, fn)
AddFilterCall ==
    \E name \in FilterNames, fn \in FilterFns :
        /\ gfilters' = [gfilters EXCEPT ![name] = fn]
        /\ UNCHANGED <<flights, observed>>
        /\ UNCHANGED <<parseVars, regVars, tagVars, renderVars>>

\* a suspended call resumes in the render of a node and resolves q in the
\* scope of line 263; `expected` is what q resolves to with the filters the
\* engine had when the call started
ScopeResolves ==
    \E r \in 1..MaxFlights, q \in Queries :
        /\ flights[r].state = "suspended"
        /\ observed' = [via |-> "scope", query |-> q,
                value |-> Resolve(NewScope(flights[r].context), q, gfilters),
                expected |-> Resolve(NewScope(flights[r].context), q, flights[r].start)]
        /\ UNCHANGED <<gfilters, flights>>
        /\ UNCHANGED <<parseVars, regVars, tagVars, renderVars>>

\* apply.js lines 17-22: a suspended call resumes in ApplyTag.render, whose
\* expression resolves q in the spread object; `expected` is what q
\* resolves to in the scope that render was given
ApplyTagResolves ==
    \E r \in 1..MaxFlights, q \in Queries :
        /\ flights[r].state = "suspended"
        /\ observed' = [via |-> "apply", query |-> q,
                value |-> Resolve(SpreadScope(NewScope(flights[r].context), "children"),
                                  q, gfilters),
                expected |-> Resolve(NewScope(flights[r].context), q, gfilters)]
        /\ UNCHANGED <<gfilters, flights>>
        /\ UNCHANGED <<parseVars, regVars, tagVars, renderVars>>

\* line 265: apply returns and the call is settled
RenderStringSettles ==
    \E r \in 1..MaxFlights :
        /\ flights[r].state = "suspended"
        /\ flights' = [flights EXCEPT ![r] = IdleFlight]
        /\ UNCHANGED <<gfilters, observed>>
        /\ UNCHANGED <<parseVars, regVars, tagVars, renderVars>>

InitScope ==
    /\ NoParse
    /\ tags = EngineTags
    /\ added = Idle
    /\ NoSplit
    /\ NoApply
    /\ NoScope

NextScope ==
    \/ RenderStringCall
    \/ AddFilterCall
    \/ ScopeResolves
    \/ ApplyTagResolves
    \/ RenderStringSettles

SpecScope == InitScope /\ [][NextScope]_vars

----------------------------------------------------------------------------
(* Properties of Sontag.parse *)

\* this step is one pass of the while loop
Stepped == status = "running" /\ pos' = pos + 1

\* this step left parse running
Went == status' = "running"

\* C1: while the top of the stack is `comment`, every item other than
\* `#}` leaves the stack unchanged, a further `{#` included.
C1_CommentAbsorbsAll ==
    [][(Stepped /\ Top(stack) = "comment" /\ item' # CEND) => stack' = stack]_vars

\* the Start node of the construct the cursor h lies in: h itself, or the
\* nearest node above a chain of Inside nodes
RECURSIVE StartOf(_, _)
StartOf(ns, h) ==
    IF h # 0 /\ NodeAt(ns, h).typeof = TagInside THEN StartOf(ns, Parent(ns, h))
    ELSE h

\* the route of the tag that the TAG pattern finds in a literal run
RouteOf(it) == Tag(tags, TagResults[it].tagName)

\* this step handles a tag region whose name routes to the given type
TagStep(type) ==
    /\ Stepped
    /\ Top(stack) = "tag"
    /\ item' \in TagLits
    /\ TagResults[item'].matched
    /\ RouteOf(item').type = type

\* C2: an accepted End tag sets the cursor to the parent of the Start node
\* of the construct it closes, however many Inside tags lie between.
C2_EndRestoresCursor ==
    [][(TagStep(TagEnd) /\ Went) =>
        head' = Parent(nodes, StartOf(nodes, head))]_vars

\* the six transitions of the table in section 4.2
Listed(top, d) ==
    \/ top = "content" /\ d \in {CSTART, ESTART, TSTART}
    \/ top = "expression" /\ d = EEND
    \/ top = "tag" /\ d = TEND

\* C6: outside a comment, a delimiter that is not one of the six listed
\* transitions for the top context fails the parse with a syntax error and
\* leaves the stack unchanged.
C6_UnlistedDelimiterFails ==
    [][(Stepped /\ item' \in Delims /\ Top(stack) # "comment"
            /\ ~Listed(Top(stack), item')) =>
        (status' = "threw" /\ err' = "Unexpected" /\ stack' = stack)]_vars

\* C7: parse returns a tree only with the stack equal to [content] and the
\* cursor at $root; an end of input in any other state is an error.
C7_ReturnsOnlyClosed ==
    /\ status = "returned" => (stack = <<"content">> /\ head = 0)
    /\ (status = "threw" /\ err \in {"UnexpectedEnd", "LeftUnclosed"}) =>
            (stack # <<"content">> \/ head # 0)

\* a template with a closed construct was returned
C7_Witness ==
    /\ status = "returned"
    /\ \E i \in 1..Len(nodes) : nodes[i].typeof = TagStart /\ nodes[i].ctor = "IfTag"

\* the cursor is a Start or Inside node of the family
InFamily(ns, h, ctor) ==
    /\ h # 0
    /\ NodeAt(ns, h).ctor = ctor
    /\ NodeAt(ns, h).typeof \in {TagStart, TagInside}

\* C8: an End tag is accepted exactly when the cursor is a Start or Inside
\* node of the End tag's family; otherwise parse fails with the
\* mismatched-close error and the cursor and the tree are unchanged.
C8_EndNeedsFamily ==
    [][TagStep(TagEnd) =>
        IF InFamily(nodes, head, RouteOf(item').ctor)
        THEN Went /\ nodes' = nodes
        ELSE status' = "threw" /\ err' = "CantClose"
                /\ head' = head /\ nodes' = nodes]_vars

\* `endfilter` has just closed a construct opened by `apply`
C8_Witness ==
    /\ status = "running"
    /\ scope = "tag"
    /\ item = Spaced(Str_end \o Str_filter)
    /\ head = 0
    /\ \E i \in 1..Len(nodes) :
            nodes[i].typeof = TagStart /\ nodes[i].tagName = Str_apply

\* the first maximal run of non-whitespace characters of s, and what follows
FirstAt(s) == CHOOSE i \in 1..Len(s) : ~IsSpace(s[i]) /\ \A j \in 1..(i - 1) : IsSpace(s[j])
LastAt(s) ==
    CHOOSE k \in FirstAt(s)..Len(s) :
        /\ \A j \in FirstAt(s)..k : ~IsSpace(s[j])
        /\ k = Len(s) \/ IsSpace(s[k + 1])
HasToken(s) == \E i \in 1..Len(s) : ~IsSpace(s[i])
FirstToken(s) == SubSeq(s, FirstAt(s), LastAt(s))
AfterToken(s) == SubSeq(s, LastAt(s) + 1, Len(s))

\* C9: a tag region whose tag name is not routed fails the parse with the
\* unknown-tag error, and no node is created for it.
C9_UnroutedNameFails ==
    [][(Stepped /\ Top(stack) = "tag" /\ item' \in TagLits /\ HasToken(item')
            /\ FirstToken(item') \notin DOMAIN tags) =>
        (status' = "threw" /\ err' = "UnknownTag" /\ nodes' = nodes)]_vars

----------------------------------------------------------------------------
(* Properties of the TAG pattern *)

\* C3: for a literal run with a non-whitespace character, the tag name is
\* its first maximal run of non-whitespace characters and the signature is
\* the rest, trimmed.
C3_NameAndSignature ==
    (tagRes # Unmatched /\ HasToken(tagItem)) =>
        /\ tagRes[1].matched
        /\ tagRes[1].tagName = FirstToken(tagItem)
        /\ tagRes[1].signature = Trim(AfterToken(tagItem))

----------------------------------------------------------------------------
(* Properties of addTag *)

Range(sq) == {sq[i] : i \in DOMAIN sq}

\* what C10 says of the registry once addTag(ctor) has returned
RoutesOf(reg, ctor) ==
    /\ \A n \in Range(ctor.tagNames) :
            /\ Tag(reg, n) = [ctor |-> ctor.name, type |-> TagStart]
            /\ ~ctor.singular =>
                    Tag(reg, Str_end \o n) = [ctor |-> ctor.name, type |-> TagEnd]
    /\ \A n \in Range(ctor.insideTagNames) :
            Tag(reg, n) = [ctor |-> ctor.name, type |-> TagInside]

\* C10 as stated: after addTag(D), for any D and any earlier addTag calls,
\* the names of D route to (D, Start), (D, End) and (D, Inside).
C10_RoutesAnyDescriptor == added.n > 0 => RoutesOf(tags, added.ctor)

\* the names a descriptor asks routes for are pairwise distinct across roles
DistinctRoles(ctor) ==
    LET opening == Range(ctor.tagNames)
        closing == IF ctor.singular THEN {} ELSE {Str_end \o n : n \in opening}
        inside == Range(ctor.insideTagNames)
    IN  opening \cap closing = {} /\ opening \cap inside = {} /\ closing \cap inside = {}

\* C10 as amended: the same, for every descriptor whose opening names,
\* `end`-prefixed names and inside names are pairwise distinct.
C10_RoutesDistinctNames ==
    (added.n > 0 /\ DistinctRoles(added.ctor)) => RoutesOf(tags, added.ctor)

\* IfTag was added after FilterTag, which had claimed `else`
C10_Witness ==
    /\ added.n = 2
    /\ added.ctor = IfTag
    /\ Tag(tags, Str_filter).ctor = "FilterTag"
    /\ Tag(tags, Str_else).ctor = "IfTag"

----------------------------------------------------------------------------
(* Properties of Sontag.apply *)

Returned(n) == out[n] # Pending

\* the outputs of the given nodes, one after another
RECURSIVE OutputsOf(_)
OutputsOf(ks) == IF ks = <<>> THEN <<>> ELSE out[Head(ks)] \o OutputsOf(Tail(ks))

\* the place of node n in the order in which the work completed
CompletedAt(n) == CHOOSE i \in 1..Len(resolved) : resolved[i] = n

\* C4: whatever the order in which the children's work completes, what
\* childrenRenderer returns for a node is the outputs of apply on its
\* children, joined in document order.
C4_JoinInDocumentOrder ==
    \A n \in DOMAIN joined :
        joined[n] # Pending =>
            /\ \A i \in 1..Len(Children(parentOf, n)) : Returned(Children(parentOf, n)[i])
            /\ joined[n] = OutputsOf(Children(parentOf, n))

\* children [a, b] where the work of a completed after that of b, and the
\* joined text still has the text of a before that of b
C4_Witness ==
    \E n \in DOMAIN joined :
        \E a, b \in 1..Len(parentOf) :
            /\ Children(parentOf, n) = <<a, b>>
            /\ joined[n] # Pending
            /\ CompletedAt(b) < CompletedAt(a)
            /\ out[a] # <<>> /\ out[b] # <<>>
            /\ joined[n] = out[a] \o out[b]

\* the selector that the render of the parent of n passes to childrenRenderer
ParentSelector(n) == IF n = 0 THEN NoSelector ELSE renders[parentOf[n]].sel

\* the text of node n: its mark and what childrenRenderer returned to it
TextOf(n) == Mark(n) \o joined[n]

\* the texts of those of the given nodes whose function is bound to sel
RECURSIVE SelectedOf(_, _)
SelectedOf(ks, sel) ==
    IF ks = <<>> THEN <<>>
    ELSE (IF renders[Head(ks)].bound = sel THEN TextOf(Head(ks)) ELSE <<>>)
            \o SelectedOf(Tail(ks), sel)

\* C5: apply returns the string that render resolved to, or the value of
\* the function it resolved to at the selector passed by the parent's render
\* (none for $root); so when every child defers, the children's text is the
\* text of exactly the children bound to the selector, in any order.
C5_ApplyUsesParentSelector ==
    /\ \A n \in DOMAIN out :
            Returned(n) =>
                out[n] = IF renders[n].ret = "string" THEN TextOf(n)
                         ELSE IF renders[n].bound = ParentSelector(n) THEN TextOf(n)
                         ELSE <<>>
    /\ \A n \in DOMAIN joined :
            (joined[n] # Pending
                /\ \A i \in 1..Len(Children(parentOf, n)) :
                        renders[Children(parentOf, n)[i]].ret = "function") =>
                joined[n] = SelectedOf(Children(parentOf, n), renders[n].sel)

\* a render that passed `else` to two deferring children, the first bound to
\* `else` and the second to `if`, got the text of the first alone
C5_Witness ==
    \E n \in DOMAIN joined :
        \E a, b \in 1..Len(parentOf) :
            /\ Children(parentOf, n) = <<a, b>>
            /\ renders[n].sel = "else"
            /\ renders[a] = [sel |-> NoSelector, ret |-> "function", bound |-> "else"]
            /\ renders[b] = [sel |-> NoSelector, ret |-> "function", bound |-> "if"]
            /\ joined[n] = TextOf(a)


----------------------------------------------------------------------------
(* Properties of parse: the tree and the cursor *)

\* every Inside node lies directly under a Start or Inside node of its family
InsideUnderFamily(ns) ==
    \A i \in 1..Len(ns) :
        ns[i].typeof = TagInside => InFamily(ns, ns[i].parent, ns[i].ctor)

\* C16: in every state of parse and in every returned tree the parent of
\* each Inside node is a Start or Inside node of the same family; an Inside
\* tag met while the cursor is Root or a node of another family fails the
\* parse with the mismatched-inside error and appends nothing.
C16_InsideUnderOwnFamily ==
    /\ []InsideUnderFamily(nodes)
    /\ [][TagStep(TagInside) =>
            IF InFamily(nodes, head, RouteOf(item').ctor)
            THEN Went /\ Len(nodes') = Len(nodes) + 1
                      /\ nodes'[Len(nodes')].parent = head
                      /\ head' = Len(nodes')
            ELSE status' = "threw" /\ err' = "CantInclude"
                    /\ head' = head /\ nodes' = nodes]_vars

\* an `else` has just been appended under the `else` before it
C16_Witness ==
    /\ status = "running"
    /\ item = Spaced(Str_else)
    /\ \E i \in 1..Len(nodes) :
            /\ nodes[i].typeof = TagInside
            /\ NodeAt(nodes, nodes[i].parent).typeof = TagInside

\* the tree holds nothing but text and tags of singular descriptors
OnlySingularAndText(ns) ==
    \A i \in 1..Len(ns) :
        \/ ns[i].ctor = "Text"
        \/ ns[i].typeof = TagStart /\ Singular(ns[i].ctor)

\* C17: a Start tag appends its node as the last child of the cursor, and
\* the node becomes the cursor exactly when its descriptor is not singular;
\* so while a template has shown only singular tags and text, the cursor
\* is Root.
C17_StartEntersUnlessSingular ==
    /\ [][TagStep(TagStart) =>
            /\ Went
            /\ Len(nodes') = Len(nodes) + 1
            /\ SubSeq(nodes', 1, Len(nodes)) = nodes
            /\ nodes'[Len(nodes')].parent = head
            /\ nodes'[Len(nodes')].ctor = RouteOf(item').ctor
            /\ nodes'[Len(nodes')].typeof = TagStart
            /\ head' = (IF Singular(RouteOf(item').ctor) THEN head
                        ELSE Len(nodes'))]_vars
    /\ [](OnlySingularAndText(nodes) => head = 0)

\* a template of text and a singular tag was returned
C17_Witness ==
    /\ status = "returned"
    /\ OnlySingularAndText(nodes)
    /\ \E i \in 1..Len(nodes) : nodes[i].ctor = "SetTag"
    /\ \E i \in 1..Len(nodes) : nodes[i].ctor = "Text"

\* node h is Root or is joined to Root by parent links
RECURSIVE Attached(_, _)
Attached(ns, h) ==
    IF h = 0 THEN TRUE
    ELSE IF h \notin 1..Len(ns) THEN FALSE
    ELSE Attached(ns, Parent(ns, h))

\* C20: in every state of parse the cursor is a defined node: Root, or a
\* Start or Inside node of a non-singular descriptor that is in the tree
\* and joined to Root by parent links.
C20_CursorAttached ==
    /\ head # NullNode
    /\ \/ head = 0
       \/ /\ head \in 1..Len(nodes)
          /\ nodes[head].typeof \in {TagStart, TagInside}
          /\ ~Singular(nodes[head].ctor)
          /\ Attached(nodes, head)

\* `endif` has just been accepted while the cursor was an Inside node
C20_Witness ==
    /\ status = "running"
    /\ scope = "tag"
    /\ item = Spaced(Str_end \o Str_if)
    /\ Len(nodes) > 0
    /\ nodes[Len(nodes)].typeof = TagInside
    /\ head # Len(nodes)

\* the children of node n, in stored order
ChildrenOf(ns, n) ==
    SelectSeq([i \in 1..Len(ns) |-> i], LAMBDA i : ns[i].parent = n)

\* the nodes of the subtree of n in pre-order
RECURSIVE Preorder(_, _), PreorderAll(_, _)
Preorder(ns, n) == <<n>> \o PreorderAll(ns, ChildrenOf(ns, n))
PreorderAll(ns, cs) ==
    IF cs = <<>> THEN <<>>
    ELSE Preorder(ns, Head(cs)) \o PreorderAll(ns, Tail(cs))

\* the payloads of the nodes of one constructor, concatenated in the order given
RECURSIVE Payloads(_, _, _)
Payloads(ns, order, ctor) ==
    IF order = <<>> THEN <<>>
    ELSE (IF Head(order) # 0 /\ ns[Head(order)].ctor = ctor
          THEN ns[Head(order)].text ELSE <<>>)
         \o Payloads(ns, Tail(order), ctor)

\* C13: for every template that parse accepts, the payloads of the Text
\* nodes of the returned tree, concatenated in pre-order, are the text the
\* template holds in content context, and the payloads of the Expression
\* nodes are the text it holds in expression context.
C13_LeavesSpellTemplate ==
    status = "returned" =>
        /\ Payloads(nodes, Preorder(nodes, 0), "Text") = seen.content
        /\ Payloads(nodes, Preorder(nodes, 0), "Expression") = seen.expression

\* a returned template with both text runs, one of them inside a construct
\* together with an expression
C13_Witness ==
    /\ status = "returned"
    /\ \E i, j, k \in 1..Len(nodes) :
            /\ nodes[i].ctor = "Text" /\ nodes[i].text = <<"t">>
            /\ nodes[j].ctor = "Text" /\ nodes[j].text = <<"\n">>
            /\ nodes[j].parent # 0
            /\ nodes[k].ctor = "Expression" /\ nodes[k].parent = nodes[j].parent

\* the failures of parse that C11 lists
ParseFailures ==
    {"Unexpected", "MissingTag", "UnknownTag", "CantClose", "CantInclude",
     "UnexpectedEnd", "LeftUnclosed"}

\* C11: every error that parse raises during render(templateId, context) or
\* renderString carries the identifier of the template being parsed, which
\* for render is the templateId, together with a line number.
C11_ErrorsNameTemplate ==
    (status = "threw" /\ err \in ParseFailures) =>
        /\ errLoc # NoLoc
        /\ errLoc.line >= 1
        /\ errLoc.label = (IF entry.op = "render" THEN entry.template
                           ELSE DefaultLabel)


----------------------------------------------------------------------------
(* Properties of renderString: failures and the order of invocation *)

\* the closure of node n has returned to a render that fails, or whose
\* function fails
Failing(n) == joined[n] # Pending /\ Fails(renders[n])

\* apply on node n has rejected
ApplyRejected(n) ==
    \/ outcome = Rejected(Mark(n))
    \/ \E i \in 1..Len(calls) :
            /\ calls[i].err = Mark(n)
            /\ calls[i].node # n \/ calls[i].pc = "rejected"

\* C14: if the render of a node, or the function it returned, fails at any
\* depth of the tree, the call is never fulfilled with an output string;
\* the failure is passed up one caller after another, no caller takes up
\* its loop again, and the call settles rejected with that error.
C14_FailureRejectsCall ==
    /\ \A n \in DOMAIN joined :
            Failing(n) =>
                /\ outcome.state # "fulfilled"
                /\ out[0] = Pending
                /\ calls = <<>> => outcome = Rejected(Mark(n))
                /\ calls # <<>> => ENABLED Unwinds
    /\ \A i \in 1..Len(calls) :
            calls[i].err # <<>> => calls[i].pc \notin {"render", "children", "joined",
                                                       "resolved", "returned"}
    /\ outcome.state = "rejected" =>
            \E n \in DOMAIN joined : Failing(n) /\ outcome.value = Mark(n)

\* the second child of $root failed after the first child had returned
\* its text, and the call was rejected
C14_Witness ==
    \E a, b \in 1..Len(parentOf) :
        /\ Children(parentOf, 0) = <<a, b>>
        /\ Returned(a) /\ out[a] # <<>>
        /\ Failing(b)
        /\ outcome = Rejected(Mark(b))

Invoked(n) == \E i \in 1..Len(invoked) : invoked[i] = n

\* the render of n has been invoked and apply on n has neither returned
\* nor rejected
InFlight(n) == Invoked(n) /\ ~Returned(n) /\ ~ApplyRejected(n)

\* C18: within one call of childrenRenderer the render of a child is not
\* invoked before apply on every earlier sibling has returned; so no two
\* siblings are in flight together, and after a child has failed no later
\* sibling is ever invoked.
C18_SiblingsOneAtATime ==
    \A n \in DOMAIN joined :
        LET cs == Children(parentOf, n)
        IN  \A i, j \in 1..Len(cs) :
                i < j =>
                    /\ Invoked(cs[j]) => Returned(cs[i])
                    /\ ~(InFlight(cs[i]) /\ InFlight(cs[j]))
                    /\ (Failing(cs[i]) \/ ApplyRejected(cs[i])) => ~Invoked(cs[j])

\* the first of two children failed, the call was rejected and the render
\* of the second was not invoked, although its work had completed
C18_Witness ==
    \E a, b \in 1..Len(parentOf) :
        /\ Children(parentOf, 0) = <<a, b>>
        /\ ApplyRejected(a)
        /\ ~Invoked(b)
        /\ \E i \in 1..Len(resolved) : resolved[i] = b
        /\ outcome.state = "rejected"

\* C19: parse of the whole template ends before the render of any node is
\* invoked: while parse runs no render has been invoked, and when parse
\* fails the call is rejected with no render ever invoked.
C19_ParseBeforeRender ==
    /\ status = "running" => (invoked = <<>> /\ calls = <<>>)
    /\ status = "threw" =>
            /\ invoked = <<>>
            /\ calls = <<>>
            /\ CallOutcome.state = "rejected"
    /\ invoked # <<>> => status = "returned"

\* parse failed at an unknown tag after it had made a Text node
C19_Witness ==
    /\ status = "threw"
    /\ err = "UnknownTag"
    /\ \E i \in 1..Len(nodes) : nodes[i].ctor = "Text"
    /\ invoked = <<>>

----------------------------------------------------------------------------
(* Properties of the scopes *)

\* C12: whatever renderString calls and addFilter calls overlap with it, a
\* suspended call resolves every name through its scope chain, the filters
\* of the reserved mapping included, to the value it would resolve it to
\* had it run alone from the state in which it started.
C12_RendersShareNothing ==
    observed.via = "scope" => observed.value = observed.expected

\* C15: the object that ApplyTag.render evaluates its expression against
\* resolves every name and every filter as the scope passed to render does,
\* the bindings inherited from the global scope included, and binds
\* __sentinel__ to the rendered children.
C15_ApplyScopeResolvesAsEnclosing ==
    observed.via = "apply" =>
        IF observed.query = [kind |-> "name", name |-> Str_sentinel]
        THEN observed.value = "children"
        ELSE observed.value = observed.expected

====
